---- MODULE Spec2Model ----
(***************************************************************************)
(* ghostcommit: the diff-to-prompt pipeline (diff-processor, prompt        *)
(* assembly) and the generate loop of the commit / amend commands.         *)
(*                                                                         *)
(* Representation.  A JavaScript string that is handled line by line is    *)
(* held as the sequence of its lines, i.e. as text.split("\n"); the text   *)
(* itself is the lines joined by "\n", so its length is the sum of the     *)
(* line lengths plus one per separator.  split and join are inverse, so    *)
(* nothing of the text is lost.  Single lines, paths, patterns and         *)
(* messages are strings.                                                   *)
(***************************************************************************)
EXTENDS Integers, Sequences, FiniteSets, TLC

\* ------------------------------------------------------------------------
\* Bounds of the model
\* ------------------------------------------------------------------------

\* Largest number of files in one raw diff.
MaxFiles == 2

\* ------------------------------------------------------------------------
\* String primitives (String.prototype.*)
\* ------------------------------------------------------------------------

Max(a, b) == IF a >= b THEN a ELSE b

CharAt(s, i) == SubSeq(s, i, i)

startsWith(s, p) == Len(s) >= Len(p) /\ SubSeq(s, 1, Len(p)) = p

endsWith(s, p) == Len(s) >= Len(p) /\ SubSeq(s, Len(s) - Len(p) + 1, Len(s)) = p

includes(s, p) == \E i \in 1..(Len(s) - Len(p) + 1) : SubSeq(s, i, i + Len(p) - 1) = p

\* The value an absent optional field (oldPath) has; a template literal
\* renders it as this text.
Undefined == "undefined"

IsSpace(c) == c \in {" ", "\n", "\t", "\r"}

RECURSIVE TrimStart(_)
TrimStart(s) ==
  IF Len(s) > 0 /\ IsSpace(CharAt(s, 1)) THEN TrimStart(SubSeq(s, 2, Len(s))) ELSE s

RECURSIVE TrimEnd(_)
TrimEnd(s) ==
  IF Len(s) > 0 /\ IsSpace(CharAt(s, Len(s))) THEN TrimEnd(SubSeq(s, 1, Len(s) - 1)) ELSE s

\* String.prototype.trim
Trim(s) == TrimEnd(TrimStart(s))

\* text.length of the text whose lines are `lines`
RECURSIVE SumLen(_, _, _)
SumLen(lines, lo, hi) ==
  IF lo > hi THEN 0
  ELSE IF lo = hi THEN Len(lines[lo])
  ELSE LET mid == (lo + hi) \div 2
       IN  SumLen(lines, lo, mid) + SumLen(lines, mid + 1, hi)

TextLength(lines) == IF Len(lines) = 0 THEN 0 ELSE SumLen(lines, 1, Len(lines)) + Len(lines) - 1

\* texts.join(sep) for texts held as line lists, where sep is "\n" (gap = 0
\* empty lines between two texts) or "\n\n" (gap = 1)
RECURSIVE JoinTexts(_, _)
JoinTexts(texts, gap) ==
  IF Len(texts) = 0 THEN <<"">>
  ELSE IF Len(texts) = 1 THEN texts[1]
  ELSE texts[1] \o [k \in 1..gap |-> ""] \o JoinTexts(Tail(texts), gap)

\* ------------------------------------------------------------------------
\* utils.ts
\* ------------------------------------------------------------------------

\* Math.ceil(text.length / 4)
estimateTokens(text) == (TextLength(text) + 3) \div 4

truncateLines(text, maxLines) ==
  IF Len(text) <= maxLines THEN text
  ELSE SubSeq(text, 1, maxLines)
         \o << "... (truncated " \o ToString(Len(text) - maxLines) \o " more lines)" >>

\* ------------------------------------------------------------------------
\* diff-processor.ts: constants
\* ------------------------------------------------------------------------

DEFAULT_IGNORE_PATTERNS ==
  << "package-lock.json", "yarn.lock", "pnpm-lock.yaml", "bun.lockb", "Gemfile.lock",
     "Cargo.lock", "poetry.lock", "composer.lock", "go.sum" >>

DEFAULT_IGNORE_GLOBS == << "*.generated.*", "*.min.js", "*.min.css", "*.map" >>

DEFAULT_IGNORE_DIRS == << "dist/", "build/", ".next/", "__pycache__/" >>

SOURCE_EXTENSIONS ==
  << ".ts", ".tsx", ".js", ".jsx", ".py", ".java", ".go", ".rs", ".rb", ".c", ".cpp",
     ".h", ".cs", ".swift", ".kt", ".scala", ".vue", ".svelte" >>

TOKEN_LIMIT == 2000

MAX_LINES_PER_FILE == 60

Range(seq) == { seq[i] : i \in 1..Len(seq) }

\* ------------------------------------------------------------------------
\* diff-processor.ts: the ignore set and its glob cache
\* ------------------------------------------------------------------------

\* The RegExp built from a glob, as the sequence of its regex atoms between
\* ^ and $: "." is escaped to a literal dot, "*" becomes ".*", "?" becomes
\* "."; every other character stands for itself.
GlobToRegex(pattern) ==
  [ i \in 1..Len(pattern) |->
      LET c == CharAt(pattern, i)
      IN  IF c = "." THEN "\\."
          ELSE IF c = "*" THEN ".*"
          ELSE IF c = "?" THEN "."
          ELSE c ]

\* regex.test(s) for an anchored regex of the atoms above
RECURSIVE RegexMatch(_, _, _, _)
RegexMatch(re, i, s, j) ==
  IF i > Len(re) THEN j > Len(s)
  ELSE IF re[i] = ".*"
    THEN \/ RegexMatch(re, i + 1, s, j)
         \/ (j <= Len(s) /\ CharAt(s, j) # "\n" /\ RegexMatch(re, i, s, j + 1))
  ELSE /\ j <= Len(s)
       /\ IF re[i] = "." THEN CharAt(s, j) # "\n"
          ELSE IF re[i] = "\\." THEN CharAt(s, j) = "."
          ELSE CharAt(s, j) = re[i]
       /\ RegexMatch(re, i + 1, s, j + 1)

RegexTest(re, s) == RegexMatch(re, 1, s, 1)

\* new RegExp(source): a RegExp object is its source and its lastIndex
NewRegExp(atoms) == [ source |-> atoms, lastIndex |-> 0 ]

\* globCache.set(pattern, regex)
CacheSet(cache, pattern, regex) ==
  [ p \in (DOMAIN cache) \cup {pattern} |-> IF p = pattern THEN regex ELSE cache[p] ]

\* matchSimpleGlob as it would be with a RegExp created with the "g" flag:
\* test() then starts at lastIndex and moves it, so a cached RegExp that has
\* just matched fails the next test.
matchSimpleGlobSticky(cache, fileName, pattern) ==
  LET cached == pattern \in DOMAIN cache
      regex  == IF cached THEN cache[pattern] ELSE NewRegExp(GlobToRegex(pattern))
      hit    == regex.lastIndex = 0 /\ RegexTest(regex.source, fileName)
  IN  [ hit   |-> hit,
        cache |-> CacheSet(cache, pattern,
                           [ regex EXCEPT !.lastIndex = IF hit THEN Len(fileName) ELSE 0 ]) ]

\* matchSimpleGlob reads and fills the module-level globCache: the result is
\* the match and the cache the call leaves behind.  The RegExp has no flags,
\* so test() neither reads nor moves lastIndex.
matchSimpleGlob(cache, fileName, pattern) ==
  LET cached == pattern \in DOMAIN cache
      regex  == IF cached THEN cache[pattern] ELSE NewRegExp(GlobToRegex(pattern))
  IN  [ hit   |-> RegexTest(regex.source, fileName),
        cache |-> IF cached THEN cache ELSE CacheSet(cache, pattern, regex) ]

\* filePath.split("/").pop() || ""
RECURSIVE LastSlash(_, _)
LastSlash(s, i) == IF i = 0 THEN 0 ELSE IF CharAt(s, i) = "/" THEN i ELSE LastSlash(s, i - 1)

\* the file name taken to be the whole path
FileNameIsPath(filePath) == filePath

FileNameOf(filePath) == SubSeq(filePath, LastSlash(filePath, Len(filePath)) + 1, Len(filePath))

\* for (const pattern of DEFAULT_IGNORE_GLOBS) if (matchSimpleGlob(...)) return true
RECURSIVE GlobLoop(_, _, _, _)
GlobLoop(cache, fileName, patterns, i) ==
  IF i > Len(patterns) THEN [ hit |-> FALSE, cache |-> cache ]
  ELSE LET r == matchSimpleGlob(cache, fileName, patterns[i])
       IN  IF r.hit THEN r ELSE GlobLoop(r.cache, fileName, patterns, i + 1)

\* for (const pattern of extraIgnorePaths) ...
RECURSIVE ExtraLoop(_, _, _, _, _)
ExtraLoop(cache, filePath, fileName, extra, i) ==
  IF i > Len(extra) THEN [ hit |-> FALSE, cache |-> cache ]
  ELSE LET pattern == extra[i]
       IN  IF endsWith(pattern, "/")
             THEN IF startsWith(filePath, pattern) \/ includes(filePath, "/" \o pattern)
                    THEN [ hit |-> TRUE, cache |-> cache ]
                    ELSE ExtraLoop(cache, filePath, fileName, extra, i + 1)
           ELSE IF includes(pattern, "*")
             THEN LET r == matchSimpleGlob(cache, fileName, pattern)
                  IN  IF r.hit THEN r
                      ELSE ExtraLoop(r.cache, filePath, fileName, extra, i + 1)
           ELSE IF filePath = pattern \/ fileName = pattern
             THEN [ hit |-> TRUE, cache |-> cache ]
           ELSE ExtraLoop(cache, filePath, fileName, extra, i + 1)

shouldIgnoreFile(cache, filePath, extraIgnorePaths) ==
  LET fileName == FileNameOf(filePath)
  IN  IF fileName \in Range(DEFAULT_IGNORE_PATTERNS)
        THEN [ hit |-> TRUE, cache |-> cache ]
      ELSE IF \E k \in 1..Len(DEFAULT_IGNORE_DIRS) :
                \/ startsWith(filePath, DEFAULT_IGNORE_DIRS[k])
                \/ includes(filePath, "/" \o DEFAULT_IGNORE_DIRS[k])
        THEN [ hit |-> TRUE, cache |-> cache ]
      ELSE LET g == GlobLoop(cache, fileName, DEFAULT_IGNORE_GLOBS, 1)
           IN  IF g.hit THEN g
               ELSE ExtraLoop(g.cache, filePath, fileName, extraIgnorePaths, 1)

isSourceFile(filePath) ==
  \E k \in 1..Len(SOURCE_EXTENSIONS) : endsWith(filePath, SOURCE_EXTENSIONS[k])

\* ------------------------------------------------------------------------
\* diff-processor.ts: the segmenter
\* ------------------------------------------------------------------------

\* the number of lines that start with c and not with notc
CountLines(lines, c, notc) ==
  Cardinality({ i \in 1..Len(lines) : startsWith(lines[i], c) /\ ~startsWith(lines[i], notc) })

countDiffChanges(diff) ==
  [ additions |-> CountLines(diff, "+", "+++"),
    deletions |-> CountLines(diff, "-", "---") ]

DiffMarker == "diff --git "

\* rawDiff.split(/^diff --git /m).filter(Boolean): the fragments, each as its
\* lines.  A fragment runs from behind one marker up to the next marker, so
\* every fragment but the last ends with the newline before the next marker
\* (its last line is empty).
Markers(rawDiff) == { i \in 1..Len(rawDiff) : startsWith(rawDiff[i], DiffMarker) }

NextMarker(rawDiff, i) ==
  LET later == { m \in Markers(rawDiff) : m > i }
  IN  IF later = {} THEN Len(rawDiff) + 1
      ELSE CHOOSE m \in later : \A n \in later : m <= n

FragmentAt(rawDiff, m) ==
  LET nm   == NextMarker(rawDiff, m)
      head == IF m = 0 THEN <<>>
              ELSE << SubSeq(rawDiff[m], Len(DiffMarker) + 1, Len(rawDiff[m])) >>
  IN  head \o SubSeq(rawDiff, m + 1, nm - 1)
           \o (IF nm <= Len(rawDiff) THEN << "" >> ELSE <<>>)

RECURSIVE FragmentsFrom(_, _)
FragmentsFrom(rawDiff, m) ==
  IF m > Len(rawDiff) THEN <<>>
  ELSE LET f == FragmentAt(rawDiff, m)
       IN  (IF f = << "" >> \/ f = <<>> THEN <<>> ELSE << f >>)
             \o FragmentsFrom(rawDiff, NextMarker(rawDiff, m))

SplitFileDiffs(rawDiff) == FragmentsFrom(rawDiff, IF 1 \in Markers(rawDiff) THEN 1 ELSE 0)

\* line.match(/^a\/(.+?) b\/(.+)/): the position of the first " b/" that
\* leaves a non-empty old path before it and a non-empty new path behind it
HeaderSplits(line) ==
  { k \in 4..(Len(line) - 3) : SubSeq(line, k, k + 2) = " b/" }

HeaderMatches(line) == startsWith(line, "a/") /\ HeaderSplits(line) # {}

HeaderSplit(line) == CHOOSE k \in HeaderSplits(line) : \A n \in HeaderSplits(line) : k <= n

\* stagedFiles.find(f => f.path === newPath || f.oldPath === oldPath)
FindStaged(stagedFiles, oldPath, newPath) ==
  LET hits == { i \in 1..Len(stagedFiles) :
                  \/ stagedFiles[i].path = newPath
                  \/ (stagedFiles[i].oldPath # Undefined /\ stagedFiles[i].oldPath = oldPath) }
  IN  IF hits = {} THEN 0 ELSE CHOOSE i \in hits : \A j \in hits : i <= j

ChunkOf(fileDiff, stagedFiles) ==
  LET hl      == CHOOSE i \in 1..Len(fileDiff) :
                   /\ HeaderMatches(fileDiff[i])
                   /\ \A j \in 1..(i - 1) : ~HeaderMatches(fileDiff[j])
      line    == fileDiff[hl]
      k       == HeaderSplit(line)
      oldPath == SubSeq(line, 3, k - 1)
      newPath == SubSeq(line, k + 3, Len(line))
      sf      == FindStaged(stagedFiles, oldPath, newPath)
      counts  == countDiffChanges(fileDiff)
  IN  [ path      |-> newPath,
        status    |-> IF sf = 0 \/ stagedFiles[sf].status = "" THEN "M" ELSE stagedFiles[sf].status,
        oldPath   |-> IF sf = 0 THEN Undefined ELSE stagedFiles[sf].oldPath,
        diff      |-> << DiffMarker \o fileDiff[1] >> \o Tail(fileDiff),
        additions |-> counts.additions,
        deletions |-> counts.deletions ]

RECURSIVE ChunksOf(_, _, _)
ChunksOf(fileDiffs, i, stagedFiles) ==
  IF i > Len(fileDiffs) THEN <<>>
  ELSE (IF \E j \in 1..Len(fileDiffs[i]) : HeaderMatches(fileDiffs[i][j])
          THEN << ChunkOf(fileDiffs[i], stagedFiles) >>
          ELSE <<>>)
         \o ChunksOf(fileDiffs, i + 1, stagedFiles)

parseDiffIntoChunks(rawDiff, stagedFiles) ==
  ChunksOf(SplitFileDiffs(rawDiff), 1, stagedFiles)

\* ------------------------------------------------------------------------
\* diff-processor.ts: the reducer
\* ------------------------------------------------------------------------

\* chunks.filter(chunk => !shouldIgnoreFile(chunk.path, extraIgnorePaths)),
\* with the glob cache handed from one call to the next
\* a filter that lets every chunk through
KeepAlways(kept, chunk, ignored) ==
  [ chunks |-> Append(kept.chunks, chunk), cache |-> ignored.cache ]

KeepUnlessIgnored(kept, chunk, ignored) ==
  [ chunks |-> IF ignored.hit THEN kept.chunks ELSE Append(kept.chunks, chunk),
    cache  |-> ignored.cache ]

FilterNext(kept, chunk, extraIgnorePaths) ==
  KeepUnlessIgnored(kept, chunk, shouldIgnoreFile(kept.cache, chunk.path, extraIgnorePaths))

RECURSIVE FilterChunks(_, _, _, _)
FilterChunks(cache, chunks, n, extraIgnorePaths) ==
  IF n = 0 THEN [ chunks |-> <<>>, cache |-> cache ]
  ELSE FilterNext(FilterChunks(cache, chunks, n - 1, extraIgnorePaths), chunks[n], extraIgnorePaths)

RECURSIVE SumField(_, _, _)
SumField(chunks, i, field) ==
  IF i > Len(chunks) THEN 0 ELSE chunks[i][field] + SumField(chunks, i + 1, field)

DiffsOf(chunks) == [ i \in 1..Len(chunks) |-> chunks[i].diff ]

\* chunks.map(c => c.diff).join("\n")
JoinedDiff(chunks) == JoinTexts(DiffsOf(chunks), 0)

\* a comparator that looks at the length alone
CompareChunksByLength(a, b) == TextLength(a.diff) - TextLength(b.diff)

\* the comparator of chunks.sort: source files first, then the shorter diff
CompareChunks(a, b) ==
  LET aIsSource == IF isSourceFile(a.path) THEN 0 ELSE 1
      bIsSource == IF isSourceFile(b.path) THEN 0 ELSE 1
  IN  IF aIsSource # bIsSource THEN aIsSource - bIsSource
      ELSE TextLength(a.diff) - TextLength(b.diff)

\* Array.prototype.sort is stable: an element goes behind every element it
\* does not precede.
InsertChunk(sorted, c) ==
  LET before == { i \in 1..Len(sorted) : CompareChunks(c, sorted[i]) < 0 }
      pos    == IF before = {} THEN Len(sorted) + 1
                ELSE CHOOSE i \in before : \A j \in before : i <= j
  IN  SubSeq(sorted, 1, pos - 1) \o << c >> \o SubSeq(sorted, pos, Len(sorted))

RECURSIVE SortChunks(_, _)
SortChunks(chunks, n) ==
  IF n = 0 THEN <<>> ELSE InsertChunk(SortChunks(chunks, n - 1), chunks[n])

\* for (const chunk of chunks) if (lines.length > MAX_LINES_PER_FILE) chunk.diff = truncateLines(...)
CapChunks(chunks) ==
  [ i \in 1..Len(chunks) |->
      IF Len(chunks[i].diff) > MAX_LINES_PER_FILE
        THEN [ chunks[i] EXCEPT !.diff = truncateLines(chunks[i].diff, MAX_LINES_PER_FILE) ]
        ELSE chunks[i] ]

\* for (const chunk of chunks) chunk.diff = truncateLines(chunk.diff, MAX_LINES_PER_FILE)
RetruncateChunks(chunks) ==
  [ i \in 1..Len(chunks) |->
      [ chunks[i] EXCEPT !.diff = truncateLines(chunks[i].diff, MAX_LINES_PER_FILE) ] ]

IsSourceChunk(c) == isSourceFile(c.path)

IsOtherChunk(c) == ~isSourceFile(c.path)

IsRealChunk(c) == c.status # "S"

\* capped.filter((c) => isSourceFile(c.path))
SourceChunksOf(chunks) == SelectSeq(chunks, IsSourceChunk)

\* capped.filter((c) => !isSourceFile(c.path))
OtherChunksOf(chunks) == SelectSeq(chunks, IsOtherChunk)

\* chunks.filter((c) => c.status !== "S")
RealChunksOf(chunks) == SelectSeq(chunks, IsRealChunk)

\* one line of the "Other files" summary
OtherLine(c) ==
  "  " \o (IF c.status = "R" THEN c.oldPath \o " → " ELSE "") \o c.path
       \o " (+" \o ToString(c.additions) \o " -" \o ToString(c.deletions) \o ")"

SummaryChunk(otherChunks) ==
  [ path      |-> "(other files summary)",
    status    |-> "S",
    oldPath   |-> Undefined,
    diff      |-> << "Other files:" >> \o [ i \in 1..Len(otherChunks) |-> OtherLine(otherChunks[i]) ],
    additions |-> SumField(otherChunks, 1, "additions"),
    deletions |-> SumField(otherChunks, 1, "deletions") ]

\* one entry of summaryParts
SummaryPart(c) ==
  LET prefix == IF c.status = "A" THEN "new: "
                ELSE IF c.status = "D" THEN "deleted: "
                ELSE IF c.status = "R" THEN "renamed: " \o c.oldPath \o " → "
                ELSE ""
  IN  prefix \o c.path \o " (+" \o ToString(c.additions) \o " -" \o ToString(c.deletions) \o ")"

\* the overflow branch: sort, cap every file, and if that is not enough keep
\* the source files and summarise the others
\* if (otherChunks.length > 0) chunks.push({ "(other files summary)" ... })
WithSummary(kept, otherChunks) ==
  IF Len(otherChunks) > 0 THEN Append(kept, SummaryChunk(otherChunks)) ELSE kept

\* if (sourceChunks.length > 0) { chunks = sourceChunks; re-truncate }
KeepSource(capped, sourceChunks, otherChunks) ==
  WithSummary(IF Len(sourceChunks) > 0 THEN RetruncateChunks(sourceChunks) ELSE capped,
              otherChunks)

\* "Still too large? Keep only source files + summary of others"
StillTooLarge(capped, limit) ==
  IF estimateTokens(JoinedDiff(capped)) > limit
    THEN KeepSource(capped, SourceChunksOf(capped), OtherChunksOf(capped))
    ELSE capped

Overflow(chunks, limit) == StillTooLarge(CapChunks(SortChunks(chunks, Len(chunks))), limit)

\* processDiff(rawDiff, stagedFiles, extraIgnorePaths): the ProcessedDiff and
\* the glob cache the call leaves behind.  The function has three
\* parameters; the size it compares with is the constant TOKEN_LIMIT.
EmptyDiff ==
  [ chunks |-> <<>>, summary |-> << "No changes" >>, totalAdditions |-> 0, totalDeletions |-> 0,
    wasFiltered |-> FALSE, wasTruncated |-> FALSE ]

\* the headline and the summaryParts, joined by "\n"
SummaryLines(real, totalAdditions, totalDeletions) ==
  << ToString(Len(real)) \o " files changed, +" \o ToString(totalAdditions)
       \o " -" \o ToString(totalDeletions) >>
    \o (IF Len(real) = 0 THEN << "" >> ELSE [ i \in 1..Len(real) |-> SummaryPart(real[i]) ])

\* the returned object
ProcessedDiff(final, totalAdditions, totalDeletions, wasFiltered, wasTruncated) ==
  [ chunks         |-> final,
    summary        |-> SummaryLines(RealChunksOf(final), totalAdditions, totalDeletions),
    totalAdditions |-> totalAdditions,
    totalDeletions |-> totalDeletions,
    wasFiltered    |-> wasFiltered,
    wasTruncated   |-> wasTruncated ]

\* the totals taken of the chunks returned, after the overflow branch
ProcessSizedTotalsLast(chunks, wasFiltered, wasTruncated) ==
  LET final == IF wasTruncated THEN Overflow(chunks, TOKEN_LIMIT) ELSE chunks
  IN  ProcessedDiff(final, SumField(final, 1, "additions"), SumField(final, 1, "deletions"),
                    wasFiltered, wasTruncated)

\* from the size estimate on
ProcessSized(chunks, wasFiltered, wasTruncated) ==
  ProcessedDiff(IF wasTruncated THEN Overflow(chunks, TOKEN_LIMIT) ELSE chunks,
                SumField(chunks, 1, "additions"), SumField(chunks, 1, "deletions"),
                wasFiltered, wasTruncated)

\* from the filter on; the totals and the estimate are taken of the chunks
\* that passed the filter
ProcessFiltered(allChunks, filtered) ==
  [ out   |-> ProcessSized(filtered.chunks, Len(filtered.chunks) < Len(allChunks),
                           estimateTokens(JoinedDiff(filtered.chunks)) > TOKEN_LIMIT),
    cache |-> filtered.cache ]

ProcessParsed(cache, allChunks, extraIgnorePaths) ==
  ProcessFiltered(allChunks, FilterChunks(cache, allChunks, Len(allChunks), extraIgnorePaths))

\* processDiff without the early return for an empty diff
processDiffWithoutEmptyCase(cache, rawDiff, stagedFiles, extraIgnorePaths) ==
  ProcessParsed(cache, parseDiffIntoChunks(rawDiff, stagedFiles), extraIgnorePaths)

processDiff(cache, rawDiff, stagedFiles, extraIgnorePaths) ==
  IF \A i \in 1..Len(rawDiff) : Trim(rawDiff[i]) = ""
    THEN [ out |-> EmptyDiff, cache |-> cache ]
    ELSE ProcessParsed(cache, parseDiffIntoChunks(rawDiff, stagedFiles), extraIgnorePaths)

\* The chunk objects.  parseDiffIntoChunks creates one object per chunk;
\* filter, sort and the source/other partition build new arrays of the same
\* objects, and `chunk.diff = ...` in the two capping loops assigns to the
\* field of the object.  An object is named by its position in the
\* segmenter's output, carried in the field ref; the summary chunk is a new
\* object and has none.
WithRefs(allChunks) == [ i \in 1..Len(allChunks) |-> [ ref |-> i ] @@ allChunks[i] ]

\* the chunk is the object i
IsObject(chunk, i) == "ref" \in DOMAIN chunk /\ chunk.ref = i

\* the objects once the assignments that gave `chunks` are done
AfterWrites(objects, chunks) ==
  [ i \in 1..Len(objects) |->
      IF \E j \in 1..Len(chunks) : IsObject(chunks[j], i)
        THEN chunks[CHOOSE j \in 1..Len(chunks) : IsObject(chunks[j], i)]
        ELSE objects[i] ]

\* the first loop assigns to every filtered object that is over the line
\* cap, the second to every source object
ObjectsAfterOverflow(objects, capped) ==
  AfterWrites(AfterWrites(objects, capped), StillTooLarge(capped, TOKEN_LIMIT))

ObjectsAfterFilter(objects, filtered) ==
  IF estimateTokens(JoinedDiff(filtered)) > TOKEN_LIMIT
    THEN ObjectsAfterOverflow(objects, CapChunks(SortChunks(filtered, Len(filtered))))
    ELSE objects

\* the segmenter's objects when processDiff returns
ObjectsAfterParse(cache, objects, extraIgnorePaths) ==
  ObjectsAfterFilter(objects, FilterChunks(cache, objects, Len(objects), extraIgnorePaths).chunks)

ObjectsAfterProcessDiff(cache, rawDiff, stagedFiles, extraIgnorePaths) ==
  IF \A i \in 1..Len(rawDiff) : Trim(rawDiff[i]) = ""
    THEN <<>>
    ELSE ObjectsAfterParse(cache, WithRefs(parseDiffIntoChunks(rawDiff, stagedFiles)),
                           extraIgnorePaths)

\* ------------------------------------------------------------------------
\* diff-processor.ts: the diff section of the prompt
\* ------------------------------------------------------------------------

\* isInitialCommit with the threshold at five files
isInitialCommitFromFive(chunks) ==
  LET realChunks == RealChunksOf(chunks)
  IN  Len(realChunks) >= 5 /\ \A i \in 1..Len(realChunks) : realChunks[i].status = "A"

isInitialCommit(chunks) ==
  LET realChunks == RealChunksOf(chunks)
  IN  Len(realChunks) > 5 /\ \A i \in 1..Len(realChunks) : realChunks[i].status = "A"

\* parts.join("\n\n"); the dash of the initial-commit note is written "-"
formatDiffForPrompt(processed) ==
  IF Len(processed.chunks) = 0 THEN << "No changes staged." >>
  ELSE
    LET head == << << "Files: " \o processed.summary[1] >> \o Tail(processed.summary) >>
                  \o (IF processed.wasFiltered
                        THEN << << "(Some auto-generated/lock files were excluded)" >> >>
                        ELSE <<>>)
                  \o (IF processed.wasTruncated
                        THEN << << "(Large diff was truncated to fit context window)" >> >>
                        ELSE <<>>)
    IN  IF isInitialCommit(processed.chunks)
          THEN JoinTexts(head \o << << "(Initial commit - full diff omitted, use file list above)" >> >>, 1)
          ELSE JoinTexts(head \o << << "---" >> >> \o DiffsOf(processed.chunks), 1)

\* ------------------------------------------------------------------------
\* git.ts: what git hands over
\* ------------------------------------------------------------------------

\* The files a change set is drawn from, in the path order git lists them.
\* app.min.js is ignored by a default glob, db/001.sql by the configured
\* patterns below; config.yaml and db/001.sql are not source files.
Catalogue ==
  << [ path |-> "app.min.js",  oldPath |-> Undefined,    status |-> "M" ],
     [ path |-> "config.yaml", oldPath |-> Undefined,    status |-> "A" ],
     [ path |-> "db/001.sql",  oldPath |-> Undefined,    status |-> "M" ],
     [ path |-> "src/main.ts", oldPath |-> Undefined,    status |-> "M" ],
     [ path |-> "src/new.ts",  oldPath |-> "src/old.ts", status |-> "R" ] >>

LongLine ==
  "+const line = 'this is a deliberately long line that significantly adds to the total estimated token count of the diff output for testing purposes';"

ShortLine == "+const x = 'source code';"

\* The hunk bodies: a three-line edit; 160 short lines (over the line cap,
\* about 1.1k tokens, 0.4k once capped); 70 long lines (over the line cap,
\* about 2.6k tokens, 2.1k once capped).
BodyKinds == { "small", "tall", "big" }

\* a hunk that adds the line "++counter;" and a plain line and removes the
\* line "-- drop the old table": three content lines, two added, one removed
MarksBody == << "+++counter;", "+const b = 2;", "--- drop the old table" >>

Body(kind) ==
  IF kind = "small" THEN << " const a = 1;", "+const b = 2;", "-const c = 3;" >>
  ELSE IF kind = "marks" THEN MarksBody
  ELSE IF kind = "tall" THEN [ i \in 1..160 |-> ShortLine ]
  ELSE [ i \in 1..70 |-> LongLine ]

\* git prints a path that holds a tab, a double quote or a backslash as a
\* C string: in double quotes, those characters escaped
NeedsQuoting(path) == \E i \in 1..Len(path) : CharAt(path, i) \in { "\t", "\"", "\\" }

RECURSIVE CEscape(_)
CEscape(path) ==
  IF path = "" THEN ""
  ELSE (IF CharAt(path, 1) = "\t" THEN "\\t"
        ELSE IF CharAt(path, 1) = "\"" THEN "\\\""
        ELSE IF CharAt(path, 1) = "\\" THEN "\\\\"
        ELSE CharAt(path, 1))
         \o CEscape(SubSeq(path, 2, Len(path)))

\* a path with its a/ or b/ prefix as git prints it
GitPath(prefix, path) ==
  IF NeedsQuoting(path) THEN "\"" \o prefix \o CEscape(path) \o "\"" ELSE prefix \o path

\* the `diff --git` line of a file
HeaderLine(f) ==
  DiffMarker \o GitPath("a/", IF f.status = "R" THEN f.oldPath ELSE f.path)
             \o " " \o GitPath("b/", f.path)

\* the lines `git diff` prints for one file
FileDiff(f) ==
  LET from == IF f.status = "R" THEN f.oldPath ELSE f.path
  IN  << HeaderLine(f) >>
        \o (IF f.status = "R"
              THEN << "similarity index 90%", "rename from " \o from, "rename to " \o f.path >>
              ELSE IF f.status = "A" THEN << "new file mode 100644" >> ELSE <<>>)
        \o << IF f.status = "A" THEN "--- /dev/null" ELSE "--- " \o GitPath("a/", from),
              "+++ " \o GitPath("b/", f.path),
              "@@ -1 +1,200 @@" >>
        \o Body(f.body)

\* git's `:(exclude)p` pathspec: p names the path, a directory above it, or
\* is a glob that matches the whole path
PathspecMatches(path, p) ==
  \/ path = p
  \/ startsWith(path, IF endsWith(p, "/") THEN p ELSE p \o "/")
  \/ (includes(p, "*") /\ RegexTest(GlobToRegex(p), path))

IsExcluded(path, excludePaths) ==
  \E k \in 1..Len(excludePaths) : PathspecMatches(path, excludePaths[k])

\* stdout of `git diff`: the diffs of the files that are not excluded, one
\* after the other, each line newline-terminated (so the text ends with an
\* empty line); "" when nothing is left to show
RECURSIVE DiffLines(_, _, _)
DiffLines(files, i, excludePaths) ==
  IF i > Len(files) THEN << "" >>
  ELSE (IF IsExcluded(files[i].path, excludePaths) THEN <<>> ELSE FileDiff(files[i]))
         \o DiffLines(files, i + 1, excludePaths)

getStagedDiff(files, excludePaths) == DiffLines(files, 1, excludePaths)

\* [...DEFAULT_IGNORE_PATTERNS, ...DEFAULT_IGNORE_DIRS, ...config.ignorePaths]
gitExcludes(configIgnorePaths) ==
  DEFAULT_IGNORE_PATTERNS \o DEFAULT_IGNORE_DIRS \o configIgnorePaths

\* `git diff --name-status`: one entry per file
getStagedFiles(files) ==
  [ i \in 1..Len(files) |->
      [ status |-> files[i].status, path |-> files[i].path, oldPath |-> files[i].oldPath ] ]

\* ------------------------------------------------------------------------
\* ai.ts and the backend
\* ------------------------------------------------------------------------

\* What one call of the backend can end with: a text, or an error with the
\* given message.
ProviderTexts == { "feat: add parser\n", "" }

SizeErrors == { "Request failed with status 413" }

OtherErrors == { "ECONNREFUSED" }

\* isTokenLimitError(error): the message names a size or rate limit
TokenLimitMarks ==
  { "413", "rate_limit", "context_length", "too large", "too many tokens", "token_limit",
    "maximum context length", "request_too_large" }

isTokenLimitError(error) == \E m \in TokenLimitMarks : includes(error, m)

\* generateCommitMessage: the streamed pieces are concatenated and trimmed;
\* without streaming the provider returns its trimmed content
generateCommitMessage(text) == Trim(text)

EmptyMessageError == "AI returned an empty commit message. Try again."

\* ------------------------------------------------------------------------
\* commands/commit.ts, commands/amend.ts: the generate loop
\* ------------------------------------------------------------------------

MAX_RETRIES == 3

RESPONSE_RESERVE == 500

RECURSIVE Pow2(_)
Pow2(n) == IF n = 0 THEN 1 ELSE 2 * Pow2(n - 1)

\* diffBudget without the floor of 500
diffBudgetUnclamped(pb, po, a) == (pb - po - RESPONSE_RESERVE) \div Pow2(a)

\* Math.max(500, Math.floor((providerBudget - promptOverhead - RESPONSE_RESERVE) / 2 ** attempt))
diffBudget(pb, po, a) == Max(500, (pb - po - RESPONSE_RESERVE) \div Pow2(a))

\* ------------------------------------------------------------------------
\* config.ts and the providers
\* ------------------------------------------------------------------------

\* obj.key !== undefined
Has(obj, key) == key \in DOMAIN obj

\* createDefaults(), of the fields the commands below read
createDefaults == [ ignorePaths |-> <<>> ]

\* mergeConfig(base, overrides) builds its result field by field from a fixed
\* list of keys; a key of the file that is not in the list (tokenBudget) is
\* not carried over.  The files considered all have an ignorePaths list.
mergeConfig(base, overrides) ==
  [ ignorePaths |-> base.ignorePaths \o overrides.ignorePaths ]

\* loadConfig: the defaults, then the project's .ghostcommit.yml; the CLI
\* flags touch neither ignorePaths nor tokenBudget
loadConfig(projectConfig) == mergeConfig(createDefaults, projectConfig)

Providers == { "ollama", "groq" }

\* provider.getTokenBudget(): Ollama 4000, Groq with its default model 10000
getTokenBudget(p) == IF p = "ollama" THEN 4000 ELSE 10000

\* config.tokenBudget ?? provider.getTokenBudget()
ResolveBudget(config, p) ==
  IF Has(config, "tokenBudget") THEN config.tokenBudget ELSE getTokenBudget(p)

VARIABLES
  cmd,            \* "commit" (runCommit), "amend" (runAmend) or "hook" (runHookRun)
  source,         \* the `source` argument of runHookRun
  configFile,     \* the parsed .ghostcommit.yml of the project
  provider,       \* the resolved provider
  msgFile,        \* the content of the commit-message file git hands to the hook
  options,        \* the command's flags: [yes, dryRun]
  isTTY,          \* process.stdout.isTTY
  diffFiles,      \* the change set git reports, a sequence of [path, oldPath, status, body]
  ignorePaths,    \* config.ignorePaths
  providerBudget, \* config.tokenBudget ?? provider.getTokenBudget()
  promptOverhead, \* estimatePromptOverhead(...)
  globCache,      \* the module-level glob cache of diff-processor.ts
  pc,             \* where the command stands
  attempt,        \* the loop variable of the retry loop
  outcomes,       \* what the backend answered to each call of the current request
  budget,         \* diffBudget of the latest attempt
  processed,      \* the ProcessedDiff of the latest attempt
  firstCall,      \* budget and result of the first processDiff call of the run
  message,        \* the local `message` of the generate loop
  error,          \* the error the command threw
  commits,        \* the messages handed to createCommit / amendCommit
  exitCode        \* the code given to process.exit

vars ==
  << cmd, source, configFile, provider, msgFile,
     options, isTTY, diffFiles, ignorePaths, providerBudget, promptOverhead, globCache,
     pc, attempt, outcomes, budget, processed, firstCall, message, error, commits, exitCode >>

inputs ==
  << cmd, source, configFile, provider,
     options, isTTY, diffFiles, ignorePaths, providerBudget, promptOverhead >>

NoResult == [ chunks |-> <<>>, summary |-> <<>>, totalAdditions |-> 0, totalDeletions |-> 0,
              wasFiltered |-> FALSE, wasTruncated |-> FALSE ]

\* The change sets: up to MaxFiles files of the catalogue in git's order,
\* each with one of the hunk bodies.
IndexSets == { S \in SUBSET (1..Len(Catalogue)) : Cardinality(S) <= MaxFiles }

RECURSIVE Ascending(_)
Ascending(S) ==
  IF S = {} THEN <<>>
  ELSE LET m == CHOOSE x \in S : \A y \in S : x <= y
       IN  << m >> \o Ascending(S \ {m})

\* the hunk bodies each file of the catalogue is run with: the minified
\* file is always large, the migration always tall
BodyChoices == << { "big" }, BodyKinds, { "tall" }, BodyKinds, BodyKinds >>

ChangeSets ==
  UNION { { [ k \in 1..Len(Ascending(S)) |->
                [ path    |-> Catalogue[Ascending(S)[k]].path,
                  oldPath |-> Catalogue[Ascending(S)[k]].oldPath,
                  status  |-> Catalogue[Ascending(S)[k]].status,
                  body    |-> b[Ascending(S)[k]] ] ]
            : b \in { c \in [ S -> BodyKinds ] : \A i \in S : c[i] \in BodyChoices[i] } }
          : S \in IndexSets }

\* The project's .ghostcommit.yml.  ignorePaths: none, or a directory and a
\* glob; `git diff` is handed the same patterns as pathspecs, matched against
\* the whole path, so db/001.sql is still in its output, and shouldIgnoreFile
\* matches the glob on the file name.  tokenBudget: absent or 900.
ChangeSetConfigs ==
  { [ ignorePaths |-> <<>> ],
    [ ignorePaths |-> << "docs/", "0*.sql" >>, tokenBudget |-> 900 ] }

FlagsConfigs == { [ ignorePaths |-> <<>> ], [ ignorePaths |-> <<>>, tokenBudget |-> 900 ] }

\* estimatePromptOverhead: the bare prompts, and prompts with a long context
PromptOverheads == { 152, 4100 }

\* what git passes as the second argument of the hook: nothing, or "message"
\* for `git commit -m`
HookSources == { Undefined, "message" }

\* the template git puts into the commit-message file
OriginalMsgFile == "# Please enter the commit message for your changes."

\* the change set of the runs that vary the flags
FlagsChangeSet ==
  << [ path |-> "app.min.js",  oldPath |-> Undefined, status |-> "M", body |-> "small" ],
     [ path |-> "src/main.ts", oldPath |-> Undefined, status |-> "M", body |-> "small" ] >>

\* n new source files src/f1.ts .. src/fn.ts with the given hunk body
AddedFiles(n, body) ==
  [ i \in 1..n |->
      [ path |-> "src/f" \o ToString(i) \o ".ts", oldPath |-> Undefined, status |-> "A",
        body |-> body ] ]

\* The first commits of a project: six new files, small or tall; five new
\* files; five new files and a modified one; six tall new files and a
\* modified configuration file.
FirstCommitChangeSets ==
  { AddedFiles(6, "small"),
    AddedFiles(6, "tall"),
    AddedFiles(5, "small"),
    << [ path |-> "src/a.ts", oldPath |-> Undefined, status |-> "M", body |-> "small" ] >>
      \o AddedFiles(5, "small"),
    << [ path |-> "config.yaml", oldPath |-> Undefined, status |-> "M", body |-> "tall" ] >>
      \o AddedFiles(6, "tall") }

\* a lock file and a build output below the root, which git's pathspecs of
\* the root do not exclude, next to a source file
NestedChangeSet ==
  << [ path |-> "src/index.ts",          oldPath |-> Undefined, status |-> "M", body |-> "small" ],
     [ path |-> "web/dist/app.js",       oldPath |-> Undefined, status |-> "A", body |-> "small" ],
     [ path |-> "web/package-lock.json", oldPath |-> Undefined, status |-> "M", body |-> "small" ] >>

\* Paths and contents that strain the segmenter: a directory whose name ends
\* with " b"; a file name with a tab, which git prints quoted, next to a
\* source file; a migration whose changed lines start with "++" and "--".
SpacedPathChangeSet ==
  << [ path |-> "plan b/notes.md", oldPath |-> Undefined, status |-> "A", body |-> "small" ] >>

QuotedPathChangeSet ==
  << [ path |-> "notes\t1.md",  oldPath |-> Undefined, status |-> "M", body |-> "small" ],
     [ path |-> "src/index.ts", oldPath |-> Undefined, status |-> "M", body |-> "small" ] >>

MarksChangeSet ==
  << [ path |-> "db/002.sql", oldPath |-> Undefined, status |-> "M", body |-> "marks" ] >>

SegmenterChangeSets == { SpacedPathChangeSet, QuotedPathChangeSet, MarksChangeSet }

\* a change set git shows nothing of: the lock file is excluded by pathspec
LockFileChangeSet ==
  << [ path |-> "package-lock.json", oldPath |-> Undefined, status |-> "M", body |-> "small" ] >>

\* runCommit refuses an empty list of staged files; runAmend takes the files
\* of the last commit, which can be none.
Init ==
  /\ \/ /\ diffFiles \in ChangeSets
        /\ configFile \in ChangeSetConfigs
        /\ provider = "ollama"
        /\ promptOverhead \in PromptOverheads
        /\ cmd = IF diffFiles = <<>> THEN "amend" ELSE "commit"
        /\ source = Undefined
        /\ options = [ yes |-> TRUE, dryRun |-> FALSE ]
        /\ isTTY = TRUE
     \/ /\ diffFiles = FlagsChangeSet
        /\ configFile \in FlagsConfigs
        /\ provider \in Providers
        /\ promptOverhead \in PromptOverheads
        /\ cmd \in { "commit", "amend" }
        /\ source = Undefined
        /\ options \in [ yes : BOOLEAN, dryRun : BOOLEAN ]
        /\ isTTY \in BOOLEAN
     \/ /\ diffFiles \in FirstCommitChangeSets \cup { NestedChangeSet } \cup SegmenterChangeSets
        /\ configFile = [ ignorePaths |-> <<>> ]
        /\ provider = "ollama"
        /\ promptOverhead = 152
        /\ cmd = "commit"
        /\ source = Undefined
        /\ options = [ yes |-> TRUE, dryRun |-> FALSE ]
        /\ isTTY = TRUE
     \/ /\ diffFiles \in { FlagsChangeSet, LockFileChangeSet, <<>> }
        /\ configFile \in FlagsConfigs
        /\ provider \in Providers
        /\ promptOverhead \in PromptOverheads
        /\ cmd = "hook"
        /\ source \in HookSources
        /\ options = [ yes |-> FALSE, dryRun |-> FALSE ]
        /\ isTTY = FALSE
  /\ ignorePaths = loadConfig(configFile).ignorePaths
  /\ providerBudget = ResolveBudget(loadConfig(configFile), provider)
  /\ msgFile = OriginalMsgFile
  /\ globCache = [ p \in {} |-> NewRegExp(<<>>) ]
  /\ pc = "attempt"
  /\ attempt = 0
  /\ outcomes = <<>>
  /\ budget = 0
  /\ processed = NoResult
  /\ firstCall = [ made |-> FALSE, budget |-> 0, out |-> NoResult ]
  /\ message = Undefined
  /\ error = Undefined
  /\ commits = <<>>
  /\ exitCode = 0

\* The call site processDiff(rawDiff, stagedFiles, config.ignorePaths,
\* diffBudget): the callee declares three parameters, so the fourth
\* argument is dropped.
reduce(cache, rawDiff, stagedFiles, extraIgnorePaths, tokenBudget) ==
  processDiff(cache, rawDiff, stagedFiles, extraIgnorePaths)

\* One pass of the retry loop up to the call of the backend: the budget of
\* this attempt, the reduced diff, and the cache and bookkeeping behind it.
Prepared(b, r) ==
  /\ budget' = b
  /\ processed' = r.out
  /\ globCache' = r.cache
  /\ firstCall' = IF firstCall.made THEN firstCall
                  ELSE [ made |-> TRUE, budget |-> b, out |-> r.out ]

PrepareWith(b) ==
  Prepared(b, reduce(globCache, getStagedDiff(diffFiles, gitExcludes(ignorePaths)),
                     getStagedFiles(diffFiles), ignorePaths, b))

Prepare == PrepareWith(diffBudget(providerBudget, promptOverhead, attempt))

\* the prompt section the backend is sent in the latest attempt
formattedDiff == formatDiffForPrompt(processed)

\* AttemptSucceeds without the `break`: the loop goes on to the next attempt
AttemptSucceedsNoBreak ==
  /\ cmd # "hook"
  /\ pc = "attempt"
  /\ attempt < MAX_RETRIES
  /\ \E text \in ProviderTexts :
       /\ Prepare
       /\ outcomes' = Append(outcomes, [ attempt |-> attempt, kind |-> "text", value |-> text ])
       /\ message' = generateCommitMessage(text)
       /\ IF attempt < MAX_RETRIES - 1
            THEN attempt' = attempt + 1 /\ pc' = pc
            ELSE attempt' = attempt /\ pc' = "generated"
  /\ UNCHANGED << inputs, msgFile, error, commits, exitCode >>

\* generateCommitMessage returns: `message = ...; break`
AttemptSucceeds ==
  /\ cmd # "hook"
  /\ pc = "attempt"
  /\ attempt < MAX_RETRIES
  /\ \E text \in ProviderTexts :
       /\ Prepare
       /\ outcomes' = Append(outcomes, [ attempt |-> attempt, kind |-> "text", value |-> text ])
       /\ message' = generateCommitMessage(text)
       /\ pc' = "generated"
  /\ UNCHANGED << inputs, msgFile, attempt, error, commits, exitCode >>

\* AttemptRetries with the bound `attempt < MAX_RETRIES` in place of
\* `attempt < MAX_RETRIES - 1`
AttemptRetriesPastBound ==
  /\ cmd # "hook"
  /\ pc = "attempt"
  /\ attempt < MAX_RETRIES
  /\ \E e \in SizeErrors \cup OtherErrors :
       /\ isTokenLimitError(e) /\ attempt < MAX_RETRIES
       /\ Prepare
       /\ outcomes' = Append(outcomes, [ attempt |-> attempt, kind |-> "error", value |-> e ])
       /\ attempt' = attempt + 1
  /\ UNCHANGED << inputs, msgFile, pc, message, error, commits, exitCode >>

\* generateCommitMessage throws a token-limit error and attempts remain: `continue`
AttemptRetries ==
  /\ cmd # "hook"
  /\ pc = "attempt"
  /\ attempt < MAX_RETRIES
  /\ \E e \in SizeErrors \cup OtherErrors :
       /\ isTokenLimitError(e) /\ attempt < MAX_RETRIES - 1
       /\ Prepare
       /\ outcomes' = Append(outcomes, [ attempt |-> attempt, kind |-> "error", value |-> e ])
       /\ attempt' = attempt + 1
  /\ UNCHANGED << inputs, msgFile, pc, message, error, commits, exitCode >>

\* AttemptThrows with every error but the last attempt's swallowed by a
\* `continue`
AttemptThrowsLate ==
  /\ cmd # "hook"
  /\ pc = "attempt"
  /\ attempt < MAX_RETRIES
  /\ \E e \in SizeErrors \cup OtherErrors :
       /\ ~(isTokenLimitError(e) /\ attempt < MAX_RETRIES - 1)
       /\ Prepare
       /\ outcomes' = Append(outcomes, [ attempt |-> attempt, kind |-> "error", value |-> e ])
       /\ IF attempt < MAX_RETRIES - 1
            THEN attempt' = attempt + 1 /\ error' = error /\ pc' = pc
            ELSE attempt' = attempt /\ error' = e /\ pc' = "failed"
  /\ UNCHANGED << inputs, msgFile, message, commits, exitCode >>

\* generateCommitMessage throws anything else, or a token-limit error on the
\* last attempt: `throw error`
AttemptThrows ==
  /\ cmd # "hook"
  /\ pc = "attempt"
  /\ attempt < MAX_RETRIES
  /\ \E e \in SizeErrors \cup OtherErrors :
       /\ ~(isTokenLimitError(e) /\ attempt < MAX_RETRIES - 1)
       /\ Prepare
       /\ outcomes' = Append(outcomes, [ attempt |-> attempt, kind |-> "error", value |-> e ])
       /\ error' = e
       /\ pc' = "failed"
  /\ UNCHANGED << inputs, msgFile, attempt, message, commits, exitCode >>

\* ThrowEmpty turned into a silent new request
ThrowEmptyRegenerates ==
  /\ pc = "generated"
  /\ message = Undefined \/ message = ""
  /\ pc' = "attempt"
  /\ attempt' = 0
  /\ UNCHANGED << inputs, msgFile, globCache, outcomes, budget, processed, firstCall,
                  message, error, commits, exitCode >>

\* if (!message) throw new Error("AI returned an empty commit message. Try again.")
ThrowEmpty ==
  /\ pc = "generated"
  /\ message = Undefined \/ message = ""
  /\ error' = EmptyMessageError
  /\ pc' = "failed"
  /\ UNCHANGED << inputs, msgFile, globCache, attempt, outcomes, budget, processed, firstCall,
                  message, commits, exitCode >>

HasMessage == pc = "generated" /\ message # Undefined /\ message # ""

\* a dry run that commits all the same
DryRunCommits ==
  /\ HasMessage
  /\ options.dryRun
  /\ commits' = Append(commits, message)
  /\ pc' = "done"
  /\ UNCHANGED << inputs, msgFile, globCache, attempt, outcomes, budget, processed, firstCall,
                  message, error, exitCode >>

\* if (options.dryRun) { ...; done = true }
DryRun ==
  /\ HasMessage
  /\ options.dryRun
  /\ pc' = "done"
  /\ UNCHANGED << inputs, msgFile, globCache, attempt, outcomes, budget, processed, firstCall,
                  message, error, commits, exitCode >>

\* if (options.yes) { await createCommit(message); done = true }
AutoAccept ==
  /\ HasMessage
  /\ ~options.dryRun /\ options.yes
  /\ commits' = Append(commits, message)
  /\ pc' = "done"
  /\ UNCHANGED << inputs, msgFile, globCache, attempt, outcomes, budget, processed, firstCall,
                  message, error, exitCode >>

\* if (!process.stdout.isTTY) { await createCommit(message); done = true }
NonInteractive ==
  /\ HasMessage
  /\ ~options.dryRun /\ ~options.yes /\ ~isTTY
  /\ commits' = Append(commits, message)
  /\ pc' = "done"
  /\ UNCHANGED << inputs, msgFile, globCache, attempt, outcomes, budget, processed, firstCall,
                  message, error, exitCode >>

Interactive == HasMessage /\ ~options.dryRun /\ ~options.yes /\ isTTY

\* case "accept"
PromptAccept ==
  /\ Interactive
  /\ commits' = Append(commits, message)
  /\ pc' = "done"
  /\ UNCHANGED << inputs, msgFile, globCache, attempt, outcomes, budget, processed, firstCall,
                  message, error, exitCode >>

\* what the editor hands back: a changed message, or nothing
EditedMessages == { "fix: edited by hand", "" }

\* case "edit"
PromptEdit ==
  /\ Interactive
  /\ \E edited \in EditedMessages :
       IF edited # ""
         THEN /\ commits' = Append(commits, edited)
              /\ pc' = "done"
              /\ exitCode' = exitCode
         ELSE /\ commits' = commits
              /\ pc' = "exited"
              /\ exitCode' = 2
  /\ UNCHANGED << inputs, msgFile, globCache, attempt, outcomes, budget, processed, firstCall,
                  message, error >>

\* a regenerate that goes on with the attempts of the request before
PromptRegenerateResumes ==
  /\ Interactive
  /\ pc' = "attempt"
  /\ message' = Undefined
  /\ UNCHANGED << inputs, msgFile, globCache, attempt, outcomes, budget, processed, firstCall,
                  error, commits, exitCode >>

\* case "regenerate": the while loop starts the next request
PromptRegenerate ==
  /\ Interactive
  /\ pc' = "attempt"
  /\ attempt' = 0
  /\ outcomes' = <<>>
  /\ message' = Undefined
  /\ UNCHANGED << inputs, msgFile, globCache, budget, processed, firstCall, error, commits, exitCode >>

\* case "cancel"
PromptCancel ==
  /\ Interactive
  /\ pc' = "exited"
  /\ exitCode' = 2
  /\ UNCHANGED << inputs, msgFile, globCache, attempt, outcomes, budget, processed, firstCall,
                  message, error, commits >>

\* ------------------------------------------------------------------------
\* commands/hook.ts: runHookRun
\* ------------------------------------------------------------------------

\* the two early returns: the user gave a message or git is merging or
\* squashing; nothing is staged
HookHasNothingToDo ==
  \/ source \in { "message", "merge", "squash" }
  \/ Len(getStagedFiles(diffFiles)) = 0

HookSkips ==
  /\ cmd = "hook"
  /\ pc = "attempt"
  /\ HookHasNothingToDo
  /\ pc' = "done"
  /\ UNCHANGED << inputs, msgFile, globCache, attempt, outcomes, budget, processed, firstCall,
                  message, error, commits, exitCode >>

HookAttempting ==
  /\ cmd = "hook"
  /\ pc = "attempt"
  /\ ~HookHasNothingToDo
  /\ attempt < MAX_RETRIES

\* HookSucceeds without the test `if (message)`
HookSucceedsWritesAlways ==
  /\ HookAttempting
  /\ \E text \in ProviderTexts :
       /\ Prepare
       /\ outcomes' = Append(outcomes, [ attempt |-> attempt, kind |-> "text", value |-> text ])
       /\ message' = generateCommitMessage(text)
       /\ msgFile' = generateCommitMessage(text)
       /\ pc' = "done"
  /\ UNCHANGED << inputs, attempt, error, commits, exitCode >>

\* generateCommitMessage returns: `if (message) await writeFile(msgFile, message); return`
HookSucceeds ==
  /\ HookAttempting
  /\ \E text \in ProviderTexts :
       /\ Prepare
       /\ outcomes' = Append(outcomes, [ attempt |-> attempt, kind |-> "text", value |-> text ])
       /\ message' = generateCommitMessage(text)
       /\ msgFile' = IF generateCommitMessage(text) # "" THEN generateCommitMessage(text)
                     ELSE msgFile
       /\ pc' = "done"
  /\ UNCHANGED << inputs, attempt, error, commits, exitCode >>

\* a token-limit error and attempts remain: `continue`
HookRetries ==
  /\ HookAttempting
  /\ \E e \in SizeErrors \cup OtherErrors :
       /\ isTokenLimitError(e) /\ attempt < MAX_RETRIES - 1
       /\ Prepare
       /\ outcomes' = Append(outcomes, [ attempt |-> attempt, kind |-> "error", value |-> e ])
       /\ attempt' = attempt + 1
  /\ UNCHANGED << inputs, msgFile, pc, message, error, commits, exitCode >>

\* any other error, or a token-limit error on the last attempt: `return`
HookGivesUp ==
  /\ HookAttempting
  /\ \E e \in SizeErrors \cup OtherErrors :
       /\ ~(isTokenLimitError(e) /\ attempt < MAX_RETRIES - 1)
       /\ Prepare
       /\ outcomes' = Append(outcomes, [ attempt |-> attempt, kind |-> "error", value |-> e ])
       /\ pc' = "done"
  /\ UNCHANGED << inputs, msgFile, attempt, message, error, commits, exitCode >>

Next ==
  \/ AttemptSucceeds
  \/ AttemptRetries
  \/ AttemptThrows
  \/ ThrowEmpty
  \/ DryRun
  \/ AutoAccept
  \/ NonInteractive
  \/ PromptAccept
  \/ PromptEdit
  \/ PromptRegenerate
  \/ PromptCancel
  \/ HookSkips
  \/ HookSucceeds
  \/ HookRetries
  \/ HookGivesUp

Spec == Init /\ [][Next]_vars

\* ------------------------------------------------------------------------
\* Properties of the generate loop
\* ------------------------------------------------------------------------

IsSizeFailure(o) == o.kind = "error" /\ isTokenLimitError(o.value)

IsOtherFailure(o) == o.kind = "error" /\ ~isTokenLimitError(o.value)

AllSizeFailures == \A k \in 1..Len(outcomes) : IsSizeFailure(outcomes[k])

\* the request is one of runCommit or runAmend, past the hook's early returns
InGenerateLoop == cmd # "hook"

\* C1: the backend is called for attempts 0, 1, 2 and never for an attempt
\* with index 3 or more; in runCommit and runAmend, while every call so far
\* has ended in a size-class failure the loop is at the next attempt, and
\* after the third such failure the command has failed with that failure as
\* its error.
C1_RetryBound ==
  /\ attempt < MAX_RETRIES
  /\ Len(outcomes) <= MAX_RETRIES
  /\ \A k \in 1..Len(outcomes) : outcomes[k].attempt = k - 1
  /\ (InGenerateLoop /\ AllSizeFailures) =>
       IF Len(outcomes) < MAX_RETRIES
         THEN pc = "attempt" /\ attempt = Len(outcomes)
         ELSE pc = "failed" /\ error = outcomes[MAX_RETRIES].value

C1_Witness ==
  InGenerateLoop /\ pc = "failed" /\ Len(outcomes) = MAX_RETRIES /\ AllSizeFailures

\* C2: a call that returns a text is the last call of its request; it was
\* attempt i after size-class failures on attempts 0..i-1, so the backend was
\* called i+1 times, and the loop's message is the text of that attempt.
C2_SuccessEndsLoop ==
  \A k \in 1..Len(outcomes) :
    outcomes[k].kind = "text" =>
      /\ k = Len(outcomes)
      /\ pc # "attempt"
      /\ outcomes[k].attempt = k - 1
      /\ \A j \in 1..(k - 1) : IsSizeFailure(outcomes[j])
      /\ message = generateCommitMessage(outcomes[k].value)

C2_Witness ==
  /\ Len(outcomes) = 3
  /\ IsSizeFailure(outcomes[1]) /\ IsSizeFailure(outcomes[2])
  /\ outcomes[3].kind = "text"
  /\ message = "feat: add parser"
  /\ pc = "generated"

\* C3: only a size-class failure is followed by another attempt; a failure of
\* any other class, and a size-class failure on the last attempt, is the
\* last call of the request and, in runCommit and runAmend, is the error the
\* command throws, unchanged.
C3_OnlySizeFailuresRetry ==
  \A k \in 1..Len(outcomes) :
    /\ k < Len(outcomes) => IsSizeFailure(outcomes[k])
    /\ (IsOtherFailure(outcomes[k])
          \/ (IsSizeFailure(outcomes[k]) /\ outcomes[k].attempt = MAX_RETRIES - 1)) =>
         /\ k = Len(outcomes)
         /\ InGenerateLoop => (pc = "failed" /\ error = outcomes[k].value)

C3_Witness ==
  /\ pc = "failed"
  /\ Len(outcomes) = 2
  /\ IsSizeFailure(outcomes[1])
  /\ IsOtherFailure(outcomes[2])
  /\ error = outcomes[2].value

\* C4: for the provider budget and prompt overhead of the run, the diff
\* budget never grows from one attempt to the next and is at least 500 on
\* every attempt, also when providerBudget - overhead - 500 is negative; the
\* budget a call was made with is at least 500 and at most the first call's.
C4_BudgetShrinks ==
  /\ \A a \in 0..(MAX_RETRIES - 2) :
       diffBudget(providerBudget, promptOverhead, a + 1)
         <= diffBudget(providerBudget, promptOverhead, a)
  /\ \A a \in 0..(MAX_RETRIES - 1) : diffBudget(providerBudget, promptOverhead, a) >= 500
  /\ firstCall.made => budget >= 500 /\ budget <= firstCall.budget

C4_Witness ==
  /\ Len(outcomes) = MAX_RETRIES
  /\ providerBudget - promptOverhead - RESPONSE_RESERVE < 0
  /\ budget = 500

\* ------------------------------------------------------------------------
\* Properties of the reducer as the generate loop calls it
\* ------------------------------------------------------------------------

\* the chunks of the raw diff that pass the ignore filter
RawDiff == getStagedDiff(diffFiles, gitExcludes(ignorePaths))

AllChunks == parseDiffIntoChunks(RawDiff, getStagedFiles(diffFiles))

Retained == FilterChunks(globCache, AllChunks, Len(AllChunks), ignorePaths).chunks

PostFilterEstimate == estimateTokens(JoinedDiff(Retained))

\* text contains sub as a run of whole lines
ContainsText(text, sub) ==
  \E i \in 0..(Len(text) - Len(sub)) : SubSeq(text, i + 1, i + Len(sub)) = sub

RealChunks == RealChunksOf(processed.chunks)

SyntheticChunks == { i \in 1..Len(processed.chunks) : processed.chunks[i].status = "S" }

\* C5: the joined diff text of the chunks a call returns is estimated at no
\* more than the budget the call was given.
C5_BudgetIsCeiling ==
  firstCall.made => estimateTokens(JoinedDiff(processed.chunks)) <= budget

\* C6: when the post-filter diff is estimated at or under the budget given
\* to the call, the result is not flagged truncated and the rendered section
\* contains the full diff text of every retained chunk.
C6_UnderBudgetUntouched ==
  (firstCall.made /\ PostFilterEstimate <= budget) =>
    /\ ~processed.wasTruncated
    /\ \A i \in 1..Len(Retained) : ContainsText(formattedDiff, Retained[i].diff)

IsTrailer(line) == startsWith(line, "... (truncated ") /\ endsWith(line, " more lines)")

\* c keeps the text of orig, cut to at most 60 lines plus one trailer line
\* when orig has more than 60 lines
IsCappedFormOf(c, orig) ==
  IF Len(orig.diff) > MAX_LINES_PER_FILE
    THEN \E n \in 1..MAX_LINES_PER_FILE :
           /\ Len(c.diff) = n + 1
           /\ SubSeq(c.diff, 1, n) = SubSeq(orig.diff, 1, n)
           /\ IsTrailer(c.diff[n + 1])
    ELSE c.diff = orig.diff

\* C7: when the post-filter diff is estimated above the limit given to the
\* call, the result is flagged truncated and every file chunk in it is the
\* capped form of that file's original diff.
C7_OverBudgetCapped ==
  (firstCall.made /\ PostFilterEstimate > budget) =>
    /\ processed.wasTruncated
    /\ \A i \in 1..Len(RealChunks) :
         \E j \in 1..Len(Retained) :
           /\ Retained[j].path = RealChunks[i].path
           /\ IsCappedFormOf(RealChunks[i], Retained[j])

IsLargeBody(kind) == kind \in { "tall", "big" }

\* the diff is one large .ts file and one large .yaml file
OneSourceOneYaml ==
  /\ Len(diffFiles) = 2
  /\ \E i, j \in 1..2 :
       /\ endsWith(diffFiles[i].path, ".ts")
       /\ endsWith(diffFiles[j].path, ".yaml")
  /\ \A i \in 1..2 : IsLargeBody(diffFiles[i].body)

\* C8: for one large .ts file and one large .yaml file that together exceed
\* the budget, the result has the .ts file as a diff chunk, no chunk for the
\* .yaml file, and exactly one "Other files" chunk, which names the .yaml file.
C8_SourceKeptOtherSummarised ==
  (firstCall.made /\ OneSourceOneYaml /\ PostFilterEstimate > budget) =>
    /\ \E i \in 1..Len(RealChunks) : endsWith(RealChunks[i].path, ".ts")
    /\ \A i \in 1..Len(RealChunks) : ~endsWith(RealChunks[i].path, ".yaml")
    /\ Cardinality(SyntheticChunks) = 1
    /\ \A i \in SyntheticChunks :
         /\ processed.chunks[i].diff[1] = "Other files:"
         /\ \E l \in 2..Len(processed.chunks[i].diff) :
              includes(processed.chunks[i].diff[l], ".yaml ")

\* C9: a processDiff call that has the inputs of the first call of the run
\* (same raw diff, file list, patterns and budget) returns the result of that
\* first call, whatever calls filled the glob cache in between.
C9_ReduceDeterministic ==
  (firstCall.made /\ budget = firstCall.budget) => processed = firstCall.out

C9_Witness ==
  /\ Len(outcomes) = 3
  /\ budget = firstCall.budget
  /\ processed.wasFiltered
  /\ Len(processed.chunks) > 0
  /\ "*.min.js" \in DOMAIN globCache

LastIsEmptyText ==
  /\ Len(outcomes) > 0
  /\ outcomes[Len(outcomes)].kind = "text"
  /\ generateCommitMessage(outcomes[Len(outcomes)].value) = ""

\* C10: once a call has returned an empty text, the only step the command
\* takes is to fail with the empty-commit-message error: the backend is not
\* called again and nothing is committed.
C10_EmptyResultFails ==
  [][ LastIsEmptyText =>
        /\ pc' = "failed"
        /\ error' = EmptyMessageError
        /\ outcomes' = outcomes
        /\ commits = <<>> /\ commits' = <<>> ]_vars

C10_Witness ==
  /\ pc = "failed"
  /\ error = EmptyMessageError
  /\ Len(outcomes) = 2
  /\ IsSizeFailure(outcomes[1])
  /\ LastIsEmptyText

HookGenerated ==
  /\ Len(outcomes) > 0
  /\ outcomes[Len(outcomes)].kind = "text"
  /\ generateCommitMessage(outcomes[Len(outcomes)].value) # ""

\* C11: runHookRun never fails, exits or commits, whatever the backend
\* answers; the commit-message file holds the generated message once a call
\* has returned a non-empty text, and is the file git wrote in every other
\* state (early return, retrying, any error, empty text).
C11_HookNeverBlocks ==
  cmd = "hook" =>
    /\ pc \in { "attempt", "done" }
    /\ error = Undefined /\ exitCode = 0 /\ commits = <<>>
    /\ IF HookGenerated
         THEN pc = "done" /\ msgFile = generateCommitMessage(outcomes[Len(outcomes)].value)
         ELSE msgFile = OriginalMsgFile

C11_Witness ==
  /\ cmd = "hook"
  /\ pc = "done"
  /\ Len(outcomes) = 2
  /\ IsSizeFailure(outcomes[1])
  /\ outcomes[2].kind = "text" /\ ~HookGenerated
  /\ msgFile = OriginalMsgFile

\* C12: when the project's configuration sets tokenBudget, that value is the
\* provider budget of every attempt (each call's diff budget is computed from
\* it); the provider's own budget is used only when none is set.
C12_ConfiguredBudgetWins ==
  /\ providerBudget = IF Has(configFile, "tokenBudget") THEN configFile.tokenBudget
                      ELSE getTokenBudget(provider)
  /\ (Has(configFile, "tokenBudget") /\ Len(outcomes) > 0) =>
       budget = diffBudget(configFile.tokenBudget, promptOverhead,
                           outcomes[Len(outcomes)].attempt)

\* shouldIgnoreFile(path, config.ignorePaths), asked with an empty glob cache
IsIgnoredChunk(c) == shouldIgnoreFile(<<>>, c.path, ignorePaths).hit

IsKeptChunk(c) == ~IsIgnoredChunk(c)

PathsOf(chunks) == { chunks[i].path : i \in 1..Len(chunks) }

\* C13: after a call of the reducer, wasFiltered is true exactly when some
\* segmented chunk has an ignored path; the chunks that pass the filter are
\* the segmented chunks with a path that is not ignored, in their order; they
\* are the chunks returned when nothing is truncated, and no returned file
\* chunk ever has an ignored path.
FilterIsExact(all, kept) ==
  /\ processed.wasFiltered <=> (\E i \in 1..Len(all) : IsIgnoredChunk(all[i]))
  /\ Retained = kept
  /\ ~processed.wasTruncated => processed.chunks = kept
  /\ PathsOf(RealChunks) \subseteq PathsOf(kept)

FilterIsExactFor(all) == FilterIsExact(all, SelectSeq(all, IsKeptChunk))

OneIgnoredOneKept(all) ==
  Len(all) = 2 /\ IsIgnoredChunk(all[1]) /\ IsKeptChunk(all[2])

IsBlank(text) == \A i \in 1..Len(text) : Trim(text[i]) = ""

IsBlankDiff == IsBlank(RawDiff)

EndsWithText(text, tail) ==
  Len(text) >= Len(tail) /\ SubSeq(text, Len(text) - Len(tail) + 1, Len(text)) = tail

\* more than five file chunks, all of them added
IsFirstCommit(real) == Len(real) > 5 /\ \A i \in 1..Len(real) : real[i].status = "A"

\* the notes on filtering and truncation follow the flags of the result
HasNotes(text) ==
  /\ processed.wasFiltered <=> "(Some auto-generated/lock files were excluded)" \in Range(text)
  /\ processed.wasTruncated <=> "(Large diff was truncated to fit context window)" \in Range(text)

\* the section lists the files only: no separator line, no chunk's diff text
ListsFilesOnly(text, chunks) ==
  /\ text[1] = "Files: " \o processed.summary[1]
  /\ HasNotes(text)
  /\ "---" \notin Range(text)
  /\ \A i \in 1..Len(chunks) : ~ContainsText(text, chunks[i].diff)
  /\ EndsWithText(text, << "(Initial commit - full diff omitted, use file list above)" >>)

\* the section ends with the separator and every chunk's diff text in order
ShowsEveryDiff(text, chunks) ==
  /\ text[1] = "Files: " \o processed.summary[1]
  /\ HasNotes(text)
  /\ EndsWithText(text, JoinTexts(<< << "", "---" >> >> \o DiffsOf(chunks), 1))

\* C15: for a result with chunks, the prompt section lists the files only
\* exactly when more than five file chunks are returned and all of them are
\* added files, whether or not the diff was truncated; otherwise it has the
\* separator followed by the diff text of every chunk in chunk order.
C15_InitialCommitShortcut ==
  (firstCall.made /\ Len(processed.chunks) > 0) =>
    IF IsFirstCommit(RealChunks)
      THEN ListsFilesOnly(formattedDiff, processed.chunks)
      ELSE ShowsEveryDiff(formattedDiff, processed.chunks)

C15_Witness ==
  /\ firstCall.made
  /\ Len(RealChunks) = 6
  /\ IsFirstCommit(RealChunks)
  /\ ~processed.wasTruncated
  /\ "---" \notin Range(formattedDiff)

\* directories a file can lie in: the root and two nested ones
Directories == { "", "web/", "packages/web/" }

IgnoredByDefault(filePath) == shouldIgnoreFile(globCache, filePath, <<>>).hit

\* C16: with no extra patterns, whatever the glob cache holds, shouldIgnoreFile
\* is true of package-lock.json in every directory, of dist/app.js and of
\* app.js under every default build directory at the root or nested, and
\* false of src/index.ts; of a diff with a nested lock file, a nested build
\* output and src/index.ts the reducer keeps src/index.ts alone.
C16_DefaultIgnores ==
  /\ \A dir \in Directories : IgnoredByDefault(dir \o "package-lock.json")
  /\ IgnoredByDefault("dist/app.js")
  /\ \A dir \in Directories : \A k \in 1..Len(DEFAULT_IGNORE_DIRS) :
        IgnoredByDefault(dir \o DEFAULT_IGNORE_DIRS[k] \o "app.js")
  /\ ~IgnoredByDefault("src/index.ts")
  /\ (firstCall.made /\ diffFiles = NestedChangeSet) =>
        (processed.wasFiltered /\ PathsOf(processed.chunks) = { "src/index.ts" })

C16_Witness ==
  /\ firstCall.made
  /\ diffFiles = NestedChangeSet
  /\ ignorePaths = <<>>
  /\ Len(AllChunks) = 3
  /\ PathsOf(processed.chunks) = { "src/index.ts" }

\* the backend answers that were texts
TextOutcomes == SelectSeq(outcomes, LAMBDA o : o.kind = "text")

\* C17: with dryRun set, runCommit and runAmend never create or amend a
\* commit, whatever the backend answers, whether or not yes is set or stdout
\* is a terminal; a run that ends well has asked for exactly one text, the
\* non-empty message it shows; and from a non-empty message the only step is
\* the one that ends the run.
C17_DryRunNeverCommits ==
  /\ [] ((InGenerateLoop /\ options.dryRun) =>
          /\ commits = <<>>
          /\ pc = "done" =>
                /\ Len(TextOutcomes) = 1
                /\ outcomes[Len(outcomes)].kind = "text"
                /\ message = generateCommitMessage(outcomes[Len(outcomes)].value)
                /\ message # ""
                /\ exitCode = 0)
  /\ [][(InGenerateLoop /\ options.dryRun /\ HasMessage) =>
          (pc' = "done" /\ commits' = <<>>)]_vars

C17_Witness ==
  /\ InGenerateLoop
  /\ options.dryRun /\ options.yes /\ ~isTTY
  /\ pc = "done"
  /\ commits = <<>>
  /\ Len(outcomes) = 2
  /\ IsSizeFailure(outcomes[1])
  /\ message # ""

\* the text as the per-file capping step leaves it
CappedOnce(text) ==
  IF Len(text) > MAX_LINES_PER_FILE THEN truncateLines(text, MAX_LINES_PER_FILE) ELSE text

\* the chunk of the given path among the chunks that passed the filter
OriginalOf(kept, path) == kept[CHOOSE i \in 1..Len(kept) : kept[i].path = path]

\* every returned file chunk carries the text the per-file capping step gave it
CappedChunksUnaltered(kept, returned) ==
  \A i \in 1..Len(returned) :
    returned[i].diff = CappedOnce(OriginalOf(kept, returned[i].path).diff)

\* capping a capped text gives the capped text
CapIsIdempotentOn(kept) ==
  \A i \in 1..Len(kept) :
    truncateLines(CappedOnce(kept[i].diff), MAX_LINES_PER_FILE) = CappedOnce(kept[i].diff)

\* C18: capping at 60 lines is idempotent on the diff text of every file that
\* reaches the reducer, and after a truncating call every returned file
\* chunk still has the text the per-file capping step gave it, also when only
\* the source files are kept.
C18_CapIdempotent ==
  (firstCall.made /\ processed.wasTruncated) =>
    /\ CapIsIdempotentOn(Retained)
    /\ CappedChunksUnaltered(Retained, RealChunks)

TrailerOf(n) == "... (truncated " \o ToString(n) \o " more lines)"

\* a returned chunk that ends with a trailer counts the lines of the file's
\* original diff text beyond the cap
TrailersCountOriginal(kept, returned) ==
  \A i \in 1..Len(returned) :
    LET text == returned[i].diff
    IN  IsTrailer(text[Len(text)]) =>
          text[Len(text)]
            = TrailerOf(Len(OriginalOf(kept, returned[i].path).diff) - MAX_LINES_PER_FILE)

\* C19: whenever a file chunk returned by the reducer ends with a truncation
\* trailer, the number in it is the number of lines of that file's original
\* diff text minus 60, on every path through the reducer.
C19_TrailerCountsOriginal ==
  firstCall.made => TrailersCountOriginal(Retained, RealChunks)

PathSeq(files) == [ i \in 1..Len(files) |-> files[i].path ]

\* a before b at the reorder step: not a non-source file before a source
\* file, and within a group not the longer text before the shorter
InReorderedOrder(a, b) ==
  /\ isSourceFile(b.path) => isSourceFile(a.path)
  /\ (isSourceFile(a.path) <=> isSourceFile(b.path)) => TextLength(a.diff) <= TextLength(b.diff)

\* the file chunks returned follow the reorder step's order of their original
\* texts, and a summary chunk comes last
OverflowOrder(kept, returned) ==
  /\ \A i \in 1..Len(returned) : returned[i].status = "S" => i = Len(returned)
  /\ \A i, j \in 1..Len(returned) :
        (i < j /\ returned[j].status # "S") =>
          InReorderedOrder(OriginalOf(kept, returned[i].path), OriginalOf(kept, returned[j].path))

\* the chunks returned are in the order of the files in the raw diff
RawDiffOrder(files, returned) ==
  LET shown == { returned[i].diff[1] : i \in 1..Len(returned) }
  IN  [ i \in 1..Len(returned) |-> returned[i].diff[1] ]
        = SelectSeq([ i \in 1..Len(files) |-> HeaderLine(files[i]) ], LAMBDA line : line \in shown)

\* C20: after a call that took the overflow path, every returned source file
\* chunk precedes every returned non-source file chunk, within each group the
\* chunks are in ascending order of the length of their diff text before
\* capping, and the summary chunk, if any, is last; after a call that did
\* not, the chunks are in the order of the files in the raw diff.
C20_ChunkOrder ==
  firstCall.made =>
    IF processed.wasTruncated
      THEN OverflowOrder(Retained, processed.chunks)
      ELSE RawDiffOrder(diffFiles, processed.chunks)

C20_Witness ==
  /\ firstCall.made
  /\ processed.wasTruncated
  /\ PathSeq(diffFiles) = << "config.yaml", "src/main.ts" >>
  /\ PathSeq(processed.chunks) = << "src/main.ts", "config.yaml" >>

\* the files whose diff git prints, in its order
ShownFiles == SelectSeq(diffFiles, LAMBDA f : ~IsExcluded(f.path, gitExcludes(ignorePaths)))

\* the header names the paths bare, as a/<old> b/<new>
HasBareHeader(f) == startsWith(HeaderLine(f), DiffMarker \o "a/")

\* one chunk per file with a bare header, in order, under the file's path
OneChunkPerHeader(files, chunks) == PathSeq(chunks) = PathSeq(SelectSeq(files, HasBareHeader))

\* C21: the segmenter returns exactly one chunk for each file header of the
\* raw diff whose paths can be read, in the order of the headers, each with
\* the path of that header's file; a fragment whose header cannot be read
\* gives no chunk.
C21_OneChunkPerHeader ==
  firstCall.made => OneChunkPerHeader(ShownFiles, AllChunks)

\* the content lines of a hunk that are added (removed): the first character
\* of a hunk line is its mark
ChangedLines(body, mark) == Cardinality({ i \in 1..Len(body) : CharAt(body[i], 1) = mark })

\* the chunk of each file counts the file's added and removed content lines
CountsEveryChangedLine(files, chunks) ==
  \A i \in 1..Len(chunks) : \A k \in 1..Len(files) :
    chunks[i].diff[1] = HeaderLine(files[k]) =>
      /\ chunks[i].additions = ChangedLines(Body(files[k].body), "+")
      /\ chunks[i].deletions = ChangedLines(Body(files[k].body), "-")

\* C22: for every chunk of the segmenter, additions is the number of added
\* content lines of the file's diff and deletions the number of removed
\* ones, whatever the content of the line, the file-header lines left out.
C22_CountsEveryChangedLine ==
  firstCall.made => CountsEveryChangedLine(ShownFiles, AllChunks)

\* the totals are the sums over the given chunks
TotalsAreSumsOver(kept) ==
  /\ processed.totalAdditions = SumField(kept, 1, "additions")
  /\ processed.totalDeletions = SumField(kept, 1, "deletions")

\* C23: after a call of the reducer, totalAdditions and totalDeletions are
\* the sums of additions and deletions over the chunks that passed the ignore
\* filter, whether or not the overflow path capped texts or put a summary
\* chunk in the place of files; the summary chunk's counts are not added.
C23_TotalsOverRetained ==
  firstCall.made => TotalsAreSumsOver(Retained)

C23_Witness ==
  /\ firstCall.made
  /\ processed.wasTruncated
  /\ Len(processed.chunks) = 2
  /\ processed.chunks[2].status = "S"
  /\ processed.chunks[1].path = "config.yaml"
  /\ processed.chunks[2].additions = processed.totalAdditions
  /\ processed.totalAdditions = 70

\* the texts of the chunks, each as the per-file capping step leaves it
CappedTexts(kept) == [ i \in 1..Len(kept) |-> CappedOnce(kept[i].diff) ]

\* over the limit before and after the per-file capping
StillOver(kept, limit) ==
  /\ estimateTokens(JoinedDiff(kept)) > limit
  /\ estimateTokens(JoinTexts(CappedTexts(kept), 0)) > limit

\* the headline counts the file chunks and the lines below it are theirs
\* (a blank diff has the summary "No changes")
SummaryLeavesOut(real) ==
  processed.summary # EmptyDiff.summary =>
  /\ startsWith(processed.summary[1], ToString(Len(real)) \o " files changed, ")
  /\ Tail(processed.summary)
       = IF Len(real) = 0 THEN << "" >> ELSE [ i \in 1..Len(real) |-> SummaryPart(real[i]) ]

\* at most one summary chunk; one exactly when the diff is still over the
\* limit once capped and some retained file is not a source file; it is
\* last and carries the sums over those files
SummaryChunkIsExact(kept, others, limit) ==
  /\ Cardinality(SyntheticChunks) <= 1
  /\ SyntheticChunks # {} <=> (StillOver(kept, limit) /\ Len(others) > 0)
  /\ \A i \in SyntheticChunks :
       /\ i = Len(processed.chunks)
       /\ processed.chunks[i].additions = SumField(others, 1, "additions")
       /\ processed.chunks[i].deletions = SumField(others, 1, "deletions")
  /\ SummaryLeavesOut(RealChunks)

SummaryChunkIsExactFor(kept, limit) == SummaryChunkIsExact(kept, OtherChunksOf(kept), limit)

\* C24: a result holds at most one summary chunk; one is present exactly
\* when the diff was still over the budget given to the call after the
\* per-file capping and some retained chunk was a non-source file; then it
\* is the last chunk, its additions and deletions are the sums over those
\* non-source files, and the file count and per-file lines of the summary
\* leave it out.
C24_OneSummaryChunk ==
  firstCall.made => SummaryChunkIsExactFor(Retained, budget)

\* The same with the limit the code compares with.
SummaryChunkExactAtTokenLimit ==
  firstCall.made => SummaryChunkIsExactFor(Retained, TOKEN_LIMIT)

\* the lines of a summary chunk under its "Other files:" header, indentation
\* aside
OtherLinesOf(chunk) == [ l \in 1..(Len(chunk.diff) - 1) |-> Trim(chunk.diff[l + 1]) ]

\* the summary chunk has one line per non-source file, each in the form of
\* the per-file lines of the summary
OtherLinesInSummaryForm(others) ==
  \A i \in SyntheticChunks :
    /\ processed.chunks[i].diff[1] = "Other files:"
    /\ Len(processed.chunks[i].diff) = 1 + Len(others)
    /\ Range(OtherLinesOf(processed.chunks[i])) = { SummaryPart(others[k]) : k \in 1..Len(others) }

\* C25: each line of the "Other files" chunk describes one non-source file
\* in the form "prefix path (+adds -dels)" of the summary's per-file lines,
\* with the prefix "new: ", "deleted: ", "renamed: <old> → " or none by
\* status; there is one line per such file and none is left out.
C25_OtherLinesHavePrefix ==
  firstCall.made => OtherLinesInSummaryForm(OtherChunksOf(Retained))

\* the line of an "Other files" chunk names the path
LineNamesPath(line, path) == includes(line, " " \o path \o " (+")

\* C27: no file is represented twice in a result: a path named by a line of
\* the "Other files" chunk is not the path of a file chunk as well, whatever
\* the mix of source and non-source files, also with no source file at all.
C27_NoPathTwice ==
  firstCall.made =>
    \A i \in SyntheticChunks : \A l \in 2..Len(processed.chunks[i].diff) :
      \A k \in 1..Len(RealChunks) :
        ~LineNamesPath(processed.chunks[i].diff[l], RealChunks[k].path)

\* the chunk objects of the segmenter after the call of the reducer
SegmenterObjects ==
  ObjectsAfterProcessDiff(globCache, RawDiff, getStagedFiles(diffFiles), ignorePaths)

\* every object still holds the text the segmenter gave it
HoldOriginalText(objects, all) ==
  \A i \in 1..Len(objects) : objects[i].diff = all[i].diff

\* C26: the reducer never changes the diff text of a chunk of the segmenter
\* in place: after a call, truncating or not, each chunk object of the
\* segmenter still holds its original text.
C26_SegmenterChunksUntouched ==
  firstCall.made => HoldOriginalText(SegmenterObjects, AllChunks)

\* the headline that agrees with the per-file lines of the given chunks
HeadlineOf(real) ==
  ToString(Len(real)) \o " files changed, +" \o ToString(SumField(real, 1, "additions"))
    \o " -" \o ToString(SumField(real, 1, "deletions"))

\* the per-file lines are those of the file chunks returned, and the
\* headline has their number and the sums of their figures
HeadlineAgrees(real) ==
  /\ Tail(processed.summary) = [ i \in 1..Len(real) |-> SummaryPart(real[i]) ]
  /\ processed.summary[1] = HeadlineOf(real)
  /\ processed.totalAdditions = SumField(real, 1, "additions")
  /\ processed.totalDeletions = SumField(real, 1, "deletions")

\* C28: in every result with chunks, the headline of the summary agrees with
\* the per-file lines under it: the count of files changed is the number of
\* per-file lines, and the totals are the sums of the (+a -d) figures of
\* those lines, on every path through the reducer.
C28_HeadlineAgrees ==
  (firstCall.made /\ Len(processed.chunks) > 0) => HeadlineAgrees(RealChunks)

\* the step is an attempt that follows the attempt before it in the same
\* generation request
NextAttemptStep ==
  /\ Len(outcomes) > 0
  /\ Len(outcomes') = Len(outcomes) + 1
  /\ outcomes'[Len(outcomes')].attempt = outcomes[Len(outcomes)].attempt + 1

\* C29: within one generation request the diff section sent to the backend
\* never grows from one attempt to the next: the section of attempt i+1 has
\* no more characters than that of attempt i, and fewer when the section of
\* attempt i was estimated above the diff budget of attempt i+1.
C29_DiffNeverGrows ==
  [][NextAttemptStep =>
       /\ TextLength(formattedDiff') <= TextLength(formattedDiff)
       /\ estimateTokens(formattedDiff) > budget' =>
            TextLength(formattedDiff') < TextLength(formattedDiff)]_vars

Ended == pc \in { "done", "failed", "exited" }

\* C30: in one run of runCommit or runAmend, whatever the backend answers
\* and the user chooses, at most one commit is created, with a non-empty
\* message, and none once a generation failure has been propagated or the
\* run was cancelled; nothing follows the end of the run; and a regenerate
\* starts a request at attempt 0 with no backend call made yet, which is
\* again bounded by three calls.
C30_CommitAtMostOnce ==
  /\ [] (InGenerateLoop =>
          /\ Len(commits) <= 1
          /\ \A k \in 1..Len(commits) : commits[k] # "" /\ commits[k] # Undefined
          /\ commits # <<>> => pc = "done"
          /\ pc = "failed" => (commits = <<>> /\ error # Undefined)
          /\ Len(outcomes) <= MAX_RETRIES
          /\ \A k \in 1..Len(outcomes) : outcomes[k].attempt = k - 1)
  /\ [][InGenerateLoop => ~Ended]_vars
  /\ [][(Interactive /\ pc' = "attempt") =>
          (attempt' = 0 /\ outcomes' = <<>> /\ commits' = <<>>)]_vars

C30_Witness ==
  /\ cmd = "commit"
  /\ firstCall.made
  /\ pc = "attempt"
  /\ attempt = 0
  /\ outcomes = <<>>
  /\ commits = <<>>

====
